---- MODULE Spec2Model ----
(***************************************************************************)
(* The private-game service of backend/src/services/privateService.js:     *)
(* createPrivateGame, getPrivateGames, joinPrivateGame, deletePrivateGame  *)
(* and getPlayers, run by concurrent requests over two tables, Game and    *)
(* Private.  Every function is async: it runs up to its next await, the    *)
(* data store executes the awaited query at some later moment, and the     *)
(* function resumes with the answer.  A request is therefore a small       *)
(* process: "idle", waiting on one query, or "done" with the value it      *)
(* returned or the error it threw.                                         *)
(***************************************************************************)
EXTENDS Integers, FiniteSets

\* Bound: the number of Game rows ever inserted.
MaxGames == 2

\* The concurrent requests being served.
Procs == {"r1", "r2"}

\* Game ids a caller may name (ids of rows that exist, existed or never did).
GameIds == 1..MaxGames

\* Passwords a caller may give.
Passwds == {"abc123", "wrong"}

\* Capacities a caller may give: the service accepts any integer.
MaxPlayersArgs == {-1, 4}

\* GAME_STATUS.ACTIVE
ACTIVE == "ACTIVE"

\* The endpoint of line 21, and the absent endpoint that `!link` tests for.
Endpoint == "http://localhost:3000/api/privateGames"
NoEndpoint == "undefined"

\* What the game-server gateway of lines 18-21 can hand back: an endpoint
\* (the stub of line 21 always does), or none (response.data.gameEndpoint
\* missing), the case line 23 guards.
GatewayResponses == {Endpoint, NoEndpoint}

\* Error message prefixes of the five catch blocks, and their causes.
CreateError == "Error creando partida privada"
QueryError == "Error obteniendo partidas privadas"
JoinError == "Error uniendo a la partida privada"
DeletionError == "Error eliminando partida privada"
PlayerCountError == "Error obteniendo jugadores de la partida privada"
NoEndpointMessage == "No se pudo obtener el endpoint de la partida privada"
StoreFailure == "data store failure"

VARIABLES
    games,      \* table Game: id -> [id, status]
    privs,      \* table Private: id (primary key) -> row
    pc,         \* per request: where it is suspended
    req,        \* per request: the call's arguments and locals
    result,     \* per request: what the call returned or threw
    created,    \* history: id of a game not yet deleted -> arguments of its create
    deleted     \* history: id -> number of deletePrivateGame calls that returned a count

vars == <<games, privs, pc, req, result, created, deleted>>

----------------------------------------------------------------------------
\* Values a call ends with.

NoResult == [kind |-> "none"]
Null == [kind |-> "null"]
Thrown(prefix, cause) == [kind |-> "error", prefix |-> prefix, cause |-> cause]
ReturnedLink(l) == [kind |-> "link", link |-> l]
ReturnedJoin(l) == [kind |-> "joined", link |-> l]
ReturnedCount(n) == [kind |-> "count", n |-> n]
ReturnedPlayers(n) == [kind |-> "players", n |-> n]
ReturnedList(rows) == [kind |-> "list", privateGames |-> rows]

NoRequest ==
    [op |-> "none", gameId |-> 0, passwd |-> "", maxPlayers |-> 0,
     link |-> NoEndpoint, newGame |-> 0]

Rows(table) == {table[i] : i \in DOMAIN table}

Insert(table, row) ==
    [i \in DOMAIN table \cup {row.id} |-> IF i = row.id THEN row ELSE table[i]]

----------------------------------------------------------------------------
\* The queries and the pieces of each function.

\* `if(!link)` of line 23.
LinkMissingNever(link) == FALSE
LinkMissing(link) == link = NoEndpoint

\* Game.create({status: ACTIVE}): the row with the next generated id.
NewGame(table) == [id |-> Cardinality(DOMAIN table) + 1, status |-> ACTIVE]

\* The row handed to Priv.create, lines 31-37.
NewPrivateGameOtherId(newGame, passwd, link, maxPlayers) ==
    [id |-> newGame.id + 1, passwd |-> passwd, link |-> link,
     maxPlayers |-> maxPlayers, currentPlayers |-> 0]
NewPrivateGameOccupied(newGame, passwd, link, maxPlayers) ==
    [id |-> newGame.id, passwd |-> passwd, link |-> link,
     maxPlayers |-> maxPlayers, currentPlayers |-> 1]
NewPrivateGame(newGame, passwd, link, maxPlayers) ==
    [id |-> newGame.id, passwd |-> passwd, link |-> link,
     maxPlayers |-> maxPlayers, currentPlayers |-> 0]

\* Priv.findAll({attributes: ['id', 'maxPlayers', 'currentPlayers']})
FindAllEveryColumn(table) == Rows(table)
FindAll(table) ==
    {[id |-> r.id, maxPlayers |-> r.maxPlayers, currentPlayers |-> r.currentPlayers] :
        r \in Rows(table)}

\* Priv.findOne({where: {id, passwd}}): the matching rows (none or one).
FindOneByIdOnly(table, gameId, passwd) == {r \in Rows(table) : r.id = gameId}
FindOneByIdAndPasswd(table, gameId, passwd) ==
    {r \in Rows(table) : r.id = gameId /\ r.passwd = passwd}

\* Priv.findOne({where: {id}})
FindOneById(table, gameId) == {r \in Rows(table) : r.id = gameId}

\* Priv.destroy({where: {id}}): the table it leaves.
DestroyNothing(table, gameId) == table
DestroyEveryRow(table, gameId) == [i \in {} |-> table[i]]
Destroy(table, gameId) == [i \in DOMAIN table \ {gameId} |-> table[i]]

\* The number of rows Priv.destroy reports.
DestroyCount(table, gameId) == Cardinality({r \in Rows(table) : r.id = gameId})

\* Lines 79-83.
JoinReturn(found) ==
    IF found = {} THEN Null ELSE ReturnedJoin((CHOOSE r \in found : TRUE).link)

\* Lines 105-109.
DeleteReturn(deletedGame) ==
    IF deletedGame = 0 THEN Null ELSE ReturnedCount(deletedGame)

\* Lines 128-132: currentPlayers of the row found.
PlayersReturnCapacity(found) ==
    IF found = {} THEN Null
    ELSE ReturnedPlayers((CHOOSE r \in found : TRUE).maxPlayers)
PlayersReturn(found) ==
    IF found = {} THEN Null
    ELSE ReturnedPlayers((CHOOSE r \in found : TRUE).currentPlayers)

----------------------------------------------------------------------------
Init ==
    /\ games = [i \in {} |-> [id |-> i, status |-> ACTIVE]]
    /\ privs = [i \in {} |-> NewPrivateGame([id |-> i], "", Endpoint, 0)]
    /\ pc = [p \in Procs |-> "idle"]
    /\ req = [p \in Procs |-> NoRequest]
    /\ result = [p \in Procs |-> NoResult]
    /\ created = [i \in {} |-> [passwd |-> "", maxPlayers |-> 0, link |-> Endpoint]]
    /\ deleted = [i \in GameIds |-> 0]

Finish(p, r) ==
    /\ pc' = [pc EXCEPT ![p] = "done"]
    /\ result' = [result EXCEPT ![p] = r]

\* Creates that have not yet asked for their Game row.
PendingCreates == {p \in Procs : pc[p] = "GameCreate"}

\* createPrivateGame, lines 14-27: obtain the endpoint, test it, and either
\* throw (caught at line 41 and rethrown wrapped) or issue Game.create.
CreateCall(p, passwd, maxPlayers) ==
    /\ pc[p] = "idle"
    /\ Cardinality(DOMAIN games) + Cardinality(PendingCreates) < MaxGames
    /\ \E link \in GatewayResponses :
        /\ req' = [req EXCEPT ![p] = [NoRequest EXCEPT !.op = "create",
                      !.passwd = passwd, !.maxPlayers = maxPlayers, !.link = link]]
        /\ IF LinkMissing(link)
           THEN Finish(p, Thrown(CreateError, NoEndpointMessage))
           ELSE pc' = [pc EXCEPT ![p] = "GameCreate"] /\ UNCHANGED result
    /\ UNCHANGED <<games, privs, created, deleted>>

\* Lines 27-31: the store executes Game.create; on success the function
\* resumes and issues Priv.create, on failure the catch block rethrows.
GameCreateStep(p) ==
    /\ pc[p] = "GameCreate"
    /\ \E answered \in BOOLEAN :
        IF answered
        THEN LET newGame == NewGame(games) IN
             /\ games' = Insert(games, newGame)
             /\ req' = [req EXCEPT ![p].newGame = newGame.id]
             /\ pc' = [pc EXCEPT ![p] = "PrivCreate"]
             /\ UNCHANGED result
        ELSE /\ Finish(p, Thrown(CreateError, StoreFailure))
             /\ UNCHANGED <<games, req>>
    /\ UNCHANGED <<privs, created, deleted>>

\* Lines 31-39: the store executes Priv.create (rejecting a duplicate
\* primary key); on success the function returns the stored row's link.
PrivCreateStep(p) ==
    /\ pc[p] = "PrivCreate"
    /\ LET row == NewPrivateGame(games[req[p].newGame], req[p].passwd,
                                 req[p].link, req[p].maxPlayers) IN
       \E answered \in BOOLEAN :
        IF answered /\ row.id \notin DOMAIN privs
        THEN /\ privs' = Insert(privs, row)
             /\ created' = [i \in DOMAIN created \cup {req[p].newGame} |->
                              IF i = req[p].newGame
                              THEN [passwd |-> req[p].passwd,
                                    maxPlayers |-> req[p].maxPlayers,
                                    link |-> req[p].link]
                              ELSE created[i]]
             /\ Finish(p, ReturnedLink(privs'[row.id].link))
        ELSE /\ Finish(p, Thrown(CreateError, StoreFailure))
             /\ UNCHANGED <<privs, created>>
    /\ UNCHANGED <<games, req, deleted>>

\* getPrivateGames, lines 52-56: issue Priv.findAll.
ListCall(p) ==
    /\ pc[p] = "idle"
    /\ pc' = [pc EXCEPT ![p] = "FindAll"]
    /\ req' = [req EXCEPT ![p] = [NoRequest EXCEPT !.op = "list"]]
    /\ UNCHANGED <<games, privs, result, created, deleted>>

\* Lines 54-60: the store answers and the listing is returned, or it fails.
ListStep(p) ==
    /\ pc[p] = "FindAll"
    /\ \E answered \in BOOLEAN :
        Finish(p, IF answered THEN ReturnedList(FindAll(privs))
                  ELSE Thrown(QueryError, StoreFailure))
    /\ UNCHANGED <<games, privs, req, created, deleted>>

\* joinPrivateGame, lines 70-77: issue Priv.findOne on id and passwd.
JoinCall(p, gameId, passwd) ==
    /\ pc[p] = "idle"
    /\ pc' = [pc EXCEPT ![p] = "FindOneJoin"]
    /\ req' = [req EXCEPT ![p] = [NoRequest EXCEPT !.op = "join",
                  !.gameId = gameId, !.passwd = passwd]]
    /\ UNCHANGED <<games, privs, result, created, deleted>>

\* Lines 72-86.
JoinStep(p) ==
    /\ pc[p] = "FindOneJoin"
    /\ \E answered \in BOOLEAN :
        Finish(p, IF answered
                  THEN JoinReturn(FindOneByIdAndPasswd(privs, req[p].gameId, req[p].passwd))
                  ELSE Thrown(JoinError, StoreFailure))
    /\ UNCHANGED <<games, privs, req, created, deleted>>

\* deletePrivateGame, lines 95-101: issue Priv.destroy on the id.
DeleteCall(p, gameId) ==
    /\ pc[p] = "idle"
    /\ pc' = [pc EXCEPT ![p] = "Destroy"]
    /\ req' = [req EXCEPT ![p] = [NoRequest EXCEPT !.op = "delete", !.gameId = gameId]]
    /\ UNCHANGED <<games, privs, result, created, deleted>>

\* Lines 97-112: the store removes the rows and reports how many.
DeleteStep(p) ==
    /\ pc[p] = "Destroy"
    /\ \E answered \in BOOLEAN :
        IF answered
        THEN LET deletedGame == DestroyCount(privs, req[p].gameId) IN
             /\ privs' = Destroy(privs, req[p].gameId)
             /\ Finish(p, DeleteReturn(deletedGame))
             /\ deleted' = [deleted EXCEPT ![req[p].gameId] =
                               IF deletedGame = 0 THEN @ ELSE @ + 1]
             /\ created' = IF deletedGame = 0 THEN created
                           ELSE [i \in DOMAIN created \ {req[p].gameId} |-> created[i]]
        ELSE /\ Finish(p, Thrown(DeletionError, StoreFailure))
             /\ UNCHANGED <<privs, deleted, created>>
    /\ UNCHANGED <<games, req>>

\* getPlayers, lines 120-126: issue Priv.findOne on the id.
PlayersCall(p, gameId) ==
    /\ pc[p] = "idle"
    /\ pc' = [pc EXCEPT ![p] = "FindOnePlayers"]
    /\ req' = [req EXCEPT ![p] = [NoRequest EXCEPT !.op = "players", !.gameId = gameId]]
    /\ UNCHANGED <<games, privs, result, created, deleted>>

\* Lines 122-135.
PlayersStep(p) ==
    /\ pc[p] = "FindOnePlayers"
    /\ \E answered \in BOOLEAN :
        Finish(p, IF answered THEN PlayersReturn(FindOneById(privs, req[p].gameId))
                  ELSE Thrown(PlayerCountError, StoreFailure))
    /\ UNCHANGED <<games, privs, req, created, deleted>>

\* The caller takes the outcome; the request slot serves the next call.
Return(p) ==
    /\ pc[p] = "done"
    /\ pc' = [pc EXCEPT ![p] = "idle"]
    /\ req' = [req EXCEPT ![p] = NoRequest]
    /\ result' = [result EXCEPT ![p] = NoResult]
    /\ UNCHANGED <<games, privs, created, deleted>>

Next ==
    \E p \in Procs :
        \/ \E passwd \in Passwds, maxPlayers \in MaxPlayersArgs :
              CreateCall(p, passwd, maxPlayers)
        \/ GameCreateStep(p)
        \/ PrivCreateStep(p)
        \/ ListCall(p)
        \/ ListStep(p)
        \/ \E gameId \in GameIds, passwd \in Passwds : JoinCall(p, gameId, passwd)
        \/ JoinStep(p)
        \/ \E gameId \in GameIds : DeleteCall(p, gameId)
        \/ DeleteStep(p)
        \/ \E gameId \in GameIds : PlayersCall(p, gameId)
        \/ PlayersStep(p)
        \/ Return(p)

Spec == Init /\ [][Next]_vars

----------------------------------------------------------------------------
\* Steps of the data store, as seen from a request.

JoinAnswered(p) == pc[p] = "FindOneJoin" /\ pc'[p] = "done" /\ result'[p].kind # "error"
ListAnswered(p) == pc[p] = "FindAll" /\ pc'[p] = "done" /\ result'[p].kind # "error"
DeleteAnswered(p) == pc[p] = "Destroy" /\ pc'[p] = "done" /\ result'[p].kind # "error"
PlayersAnswered(p) == pc[p] = "FindOnePlayers" /\ pc'[p] = "done" /\ result'[p].kind # "error"
DoneWith(p, op) == pc[p] = "done" /\ req[p].op = op

\* C1: whenever the store answers its lookup (the only throw of
\* joinPrivateGame is the wrapped data-access failure of lines 84-86),
\* joinPrivateGame(gameId, passwd) returns {link: L}, L the stored link, if
\* and only if a Private row with that id and that passwd exists at the
\* lookup; for every other pair it returns null, the same null for a wrong
\* password on an existing game as for a game that does not exist.
JoinReturnsLinkIffIdAndPasswdMatch ==
    [][\A p \in Procs : JoinAnswered(p) =>
        LET match == \E i \in DOMAIN privs :
                        privs[i].id = req[p].gameId /\ privs[i].passwd = req[p].passwd
        IN  /\ match => /\ result'[p].kind = "joined"
                        /\ result'[p].link = privs[req[p].gameId].link
            /\ ~match => result'[p].kind = "null"]_vars

\* Two finished joins on the same existing game: the right password got the
\* link, the wrong one got null.
JoinRightAndWrongPassword ==
    \E p \in Procs, q \in Procs :
        /\ DoneWith(p, "join") /\ result[p].kind = "joined"
        /\ DoneWith(q, "join") /\ result[q].kind = "null"
        /\ req[q].gameId = req[p].gameId
        /\ req[q].gameId \in DOMAIN privs
        /\ privs[req[q].gameId].passwd # req[q].passwd

\* C2: a createPrivateGame that succeeds returns the endpoint the gateway
\* supplied to that call, and every getPrivateGames answered while the game
\* has not been deleted lists it with currentPlayers = 0 and the maxPlayers
\* given to the create.
CreateReturnsGatewayLinkAndIsListed ==
    /\ [](\A p \in Procs : (DoneWith(p, "create") /\ result[p].kind = "link") =>
            /\ result[p].link = req[p].link
            /\ req[p].link # NoEndpoint)
    /\ [][\A q \in Procs : ListAnswered(q) =>
            \A i \in DOMAIN created :
                [id |-> i, maxPlayers |-> created[i].maxPlayers, currentPlayers |-> 0]
                    \in result'[q].privateGames]_vars

\* A create has returned its link and a listing taken afterwards shows the
\* new game with the capacity given.
CreatedGameIsListed ==
    \E p \in Procs, q \in Procs :
        /\ DoneWith(p, "create") /\ result[p].kind = "link"
        /\ DoneWith(q, "list") /\ result[q].kind = "list"
        /\ \E e \in result[q].privateGames :
              /\ e.id = req[p].newGame
              /\ e.maxPlayers = req[p].maxPlayers
              /\ e.maxPlayers = 4

\* C3: per game, at most one deletePrivateGame call returns a row count: a
\* delete answered while the row exists returns a positive count, and every
\* delete answered after one has returned a count for that id returns null,
\* however the calls were issued (one after the other, or both pending).
DeleteReturnsCountOnce ==
    /\ [](\A i \in GameIds : deleted[i] <= 1)
    /\ [][\A p \in Procs : DeleteAnswered(p) =>
            /\ req[p].gameId \in DOMAIN created =>
                  result'[p].kind = "count" /\ result'[p].n > 0
            /\ deleted[req[p].gameId] > 0 => result'[p].kind = "null"]_vars

\* Two deletes of the same game have both finished: one with the count, the
\* other with null.
DeletedTwice ==
    \E p \in Procs, q \in Procs :
        /\ DoneWith(p, "delete") /\ result[p].kind = "count"
        /\ DoneWith(q, "delete") /\ result[q].kind = "null"
        /\ req[p].gameId = req[q].gameId
        /\ deleted[req[p].gameId] = 1

\* C4: when the gateway hands back no endpoint, createPrivateGame throws at
\* once: the step leaves both tables as they were, and the call never goes
\* on to insert a Game or a Private row.
NoEndpointPersistsNothing ==
    /\ [](\A p \in Procs : (req[p].op = "create" /\ req[p].link = NoEndpoint) =>
            /\ pc[p] = "done"
            /\ result[p].kind = "error"
            /\ result[p].cause = NoEndpointMessage
            /\ req[p].newGame = 0)
    /\ [][\A p \in Procs :
            (pc[p] = "idle" /\ req'[p].op = "create" /\ req'[p].link = NoEndpoint) =>
                games' = games /\ privs' = privs]_vars

\* A create has failed for want of an endpoint, in a store that holds rows.
CreateFailedOnGateway ==
    \E p \in Procs :
        /\ DoneWith(p, "create") /\ req[p].link = NoEndpoint
        /\ result[p].kind = "error"
        /\ DOMAIN privs # {}

\* C5: every finished createPrivateGame has persisted either both a Game
\* row and the Private row of the same id, or neither.
CreateIsAtomic ==
    \A p \in Procs : DoneWith(p, "create") =>
        \/ req[p].newGame = 0
        \/ /\ req[p].newGame \in DOMAIN games
           /\ req[p].newGame \in DOMAIN created \/ deleted[req[p].newGame] > 0

\* C6: whenever the store answers, getPlayers(id) returns 0 for a game
\* created and not yet deleted, whatever joins were made on it, and null
\* once the game's row has been deleted.
PlayersZeroUntilDeleted ==
    [][\A p \in Procs : PlayersAnswered(p) =>
        /\ req[p].gameId \in DOMAIN created =>
              result'[p].kind = "players" /\ result'[p].n = 0
        /\ deleted[req[p].gameId] > 0 => result'[p].kind = "null"]_vars

\* getPlayers has returned 0 for a game a join has just succeeded on.
PlayersZeroAfterJoin ==
    \E p \in Procs, q \in Procs :
        /\ DoneWith(p, "players") /\ result[p].kind = "players" /\ result[p].n = 0
        /\ DoneWith(q, "join") /\ result[q].kind = "joined"
        /\ req[p].gameId = req[q].gameId

\* The stores that agree with `table` on every row's id, maxPlayers and
\* currentPlayers, and carry any passwd and link.
SecretVariants(table) ==
    {[i \in DOMAIN table |-> [table[i] EXCEPT !.passwd = f[i][1], !.link = f[i][2]]] :
        f \in [DOMAIN table -> Passwds \X GatewayResponses]}

PublicColumns == {"id", "maxPlayers", "currentPlayers"}

\* C7: the listing an answered getPrivateGames returns is the listing every
\* store that differs from the current one only in passwd and link values
\* would have given; it has one entry per stored row, and an entry carries
\* id, maxPlayers and currentPlayers only.
ListingIndependentOfSecrets ==
    [][\A p \in Procs : ListAnswered(p) =>
        LET listing == result'[p].privateGames IN
        /\ \A t \in SecretVariants(privs) : FindAll(t) = listing
        /\ Cardinality(listing) = Cardinality(DOMAIN privs)
        /\ \A e \in listing : DOMAIN e = PublicColumns]_vars

\* A listing of two games with different passwords has been returned.
ListedTwoGames ==
    \E p \in Procs :
        /\ DoneWith(p, "list") /\ result[p].kind = "list"
        /\ result[p].privateGames = FindAll(privs)
        /\ \E i \in DOMAIN privs, j \in DOMAIN privs : privs[i].passwd # privs[j].passwd

\* C8: every Private row's id is the id of a Game row.
PrivateGameHasGame ==
    \A i \in DOMAIN privs : privs[i].id = i /\ i \in DOMAIN games

\* A Private row beside a Game row that has none (a create failed part-way,
\* or its Private row was deleted).
PrivateGameBesideOrphan ==
    /\ DOMAIN privs # {}
    /\ DOMAIN games \ DOMAIN privs # {}

\* C9: deletePrivateGame(gameId) leaves the Game table as it was (the Game
\* row of that id stays, ACTIVE) and every Private row of another id as it
\* was; when no row has that id the Private table is unchanged too.
DeleteTouchesOnlyItsRow ==
    [][\A p \in Procs : (pc[p] = "Destroy" /\ pc'[p] = "done") =>
        /\ games' = games
        /\ req[p].gameId \in DOMAIN games => games'[req[p].gameId].status = ACTIVE
        /\ DOMAIN privs' \subseteq DOMAIN privs
        /\ \A i \in DOMAIN privs \ {req[p].gameId} :
              i \in DOMAIN privs' /\ privs'[i] = privs[i]
        /\ req[p].gameId \notin DOMAIN privs => privs' = privs]_vars

\* A delete has removed one game's row while another game's row is stored.
DeletedOneOfTwo ==
    \E p \in Procs :
        /\ DoneWith(p, "delete") /\ result[p].kind = "count"
        /\ req[p].gameId \in DOMAIN games \ DOMAIN privs
        /\ DOMAIN privs # {}

\* C10: every stored Private row has 0 <= currentPlayers <= maxPlayers.
OccupancyWithinCapacity ==
    \A i \in DOMAIN privs :
        0 <= privs[i].currentPlayers /\ privs[i].currentPlayers <= privs[i].maxPlayers

====
